---- MODULE Spec2Model ----
(***************************************************************************)
(* Incline Force Simulator (finproject.py): the Simulator object, the      *)
(* global paused flag and the control loop of main().                      *)
(*                                                                         *)
(* Floating-point quantities are kept as fixed-point integers:             *)
(*   sin, cos        thousandths                (TrigScale)                *)
(*   friction        hundredths, the grid round(x, 2) keeps it on          *)
(*   forces          1e-6 N                                                *)
(*   acceleration    1e-6 m/s^2                                            *)
(*   velocity        1e-5/60 m/s, so that "+= acceleration * (1/60)" is an *)
(*                   integer addition of acceleration \div VelDiv          *)
(*   progress        1/One, One standing for 1.0; a velocity unit moves    *)
(*                   the object 1e-5/3600 m, i.e. 1/ProgDiv progress units *)
(*   position        thousandths of a pixel     (PosScale)                 *)
(***************************************************************************)
EXTENDS Integers, Sequences, FiniteSets, TLC

\* ------------------------------------------------------------------ bounds
MaxTicks == 4        \* iterations of the while loop explored in one run
MaxEvents == 4       \* events drained from the queue in one run
FlightTicks == 1198  \* steps already taken in the in-flight initial states

\* ------------------------------------------------------ program constants
WIDTH == 800
HEIGHT == 600
G10 == 98            \* g = 9.8, in tenths
MassInit == 10
AngleInit == 30
FrictionInit == 20   \* 0.2
MassMax == 100
MassMin == 1
AngleMax == 85
AngleMin == 0
FrictionMax == 100   \* 1.0
FrictionMin == 0
FrictionStep == 5    \* 0.05

\* ------------------------------------------------ fixed-point resolutions
TrigScale == 1000
FricScale == 100
VelDiv == 10
ProgDiv == 256
\* 1.0 of progress: 3600 * incline_length * 1e5 / ProgDiv, incline_length =
\* sqrt(500^2 + 400^2) = 640.3124
One == 900439346
PosScale == 1000

Min(a, b) == IF a < b THEN a ELSE b
Max(a, b) == IF a > b THEN a ELSE b

\* math.sin(math.radians(a)) * TrigScale for a = 0 .. 85 (index a + 1)
SinT ==
  << 0, 17, 35, 52, 70, 87, 105, 122, 139, 156, 174, 191, 208, 225, 242, 259,
     276, 292, 309, 326, 342, 358, 375, 391, 407, 423, 438, 454, 469, 485,
     500, 515, 530, 545, 559, 574, 588, 602, 616, 629, 643, 656, 669, 682,
     695, 707, 719, 731, 743, 755, 766, 777, 788, 799, 809, 819, 829, 839,
     848, 857, 866, 875, 883, 891, 899, 906, 914, 921, 927, 934, 940, 946,
     951, 956, 961, 966, 970, 974, 978, 982, 985, 988, 990, 993, 995, 996 >>

\* math.cos(math.radians(a)) * TrigScale for a = 0 .. 85 (index a + 1)
CosT ==
  << 1000, 1000, 999, 999, 998, 996, 995, 993, 990, 988, 985, 982, 978, 974,
     970, 966, 961, 956, 951, 946, 940, 934, 927, 921, 914, 906, 899, 891,
     883, 875, 866, 857, 848, 839, 829, 819, 809, 799, 788, 777, 766, 755,
     743, 731, 719, 707, 695, 682, 669, 656, 643, 629, 616, 602, 588, 574,
     559, 545, 530, 515, 500, 485, 469, 454, 438, 423, 407, 391, 375, 358,
     342, 326, 309, 292, 276, 259, 242, 225, 208, 191, 174, 156, 139, 122,
     105, 87 >>

\* ---------------------------------------------------------------- geometry
incline_start == << WIDTH - 100, 100 >>
incline_end == << 200, HEIGHT - 100 >>
slope_x == incline_end[1] - incline_start[1]
slope_y == incline_end[2] - incline_start[2]

\* -------------------------------------------------------------- Simulator
\* Simulator.calculate_forces, on (mass, angle, friction)
weight(m) == m * G10
normal_force(m, a) == weight(m) * CosT[a + 1] * FricScale
parallel_force(m, a) == weight(m) * SinT[a + 1] * FricScale
friction_force(m, a, f) == f * (normal_force(m, a) \div FricScale)
net_force(m, a, f) == parallel_force(m, a) - friction_force(m, a, f)
acceleration(m, a, f) ==
  IF net_force(m, a, f) > 0 THEN net_force(m, a, f) \div m ELSE 0

\* progress units per position unit along a slope of d > 0 pixels: One over
\* d * PosScale, rounded to nearest
PerUnit(d) == (One + (d * PosScale) \div 2) \div (d * PosScale)

\* slope * progress of lines 114-115 for a slope of d pixels
Along(d, p) ==
  IF d >= 0 THEN p \div PerUnit(d) ELSE 0 - (p \div PerUnit(0 - d))

\* position_x / position_y as functions of progress (lines 114-115)
PosX(p) == incline_start[1] * PosScale + Along(slope_x, p)
PosY(p) == incline_start[2] * PosScale + Along(slope_y, p)

\* the motion fields before __init__ has called reset_simulation
NoMotion == [velocity |-> 0, progress |-> 0, position_x |-> 0, position_y |-> 0]

\* reset_simulation without lines 74-75: the object is not moved back
reset_simulation_keeps_position(s) ==
  [s EXCEPT !.velocity = 0, !.progress = 0]

\* Simulator.reset_simulation on the motion fields s
reset_simulation(s) ==
  [s EXCEPT !.velocity = 0, !.progress = 0,
            !.position_x = incline_start[1] * PosScale,
            !.position_y = incline_start[2] * PosScale]

\* update_position without the min(..., 1.0) of line 112
update_position_unclamped(s, m, a, f) ==
  IF s.progress >= One
  THEN [s EXCEPT !.velocity = 0]
  ELSE LET v == s.velocity + acceleration(m, a, f) \div VelDiv
           p == s.progress + v \div ProgDiv
       IN  [velocity |-> v, progress |-> p,
            position_x |-> PosX(p), position_y |-> PosY(p)]

\* Simulator.update_position on the motion fields s, with parameters m, a, f
update_position(s, m, a, f) ==
  IF s.progress >= One
  THEN [s EXCEPT !.velocity = 0]
  ELSE LET v == s.velocity + acceleration(m, a, f) \div VelDiv
           displacement == v
           progress_increment == displacement \div ProgDiv
           p == Min(s.progress + progress_increment, One)
       IN  [velocity |-> v, progress |-> p,
            position_x |-> PosX(p), position_y |-> PosY(p)]

\* ------------------------------------------------- the mutators of main()
mass_up(m) == Min(m + 1, MassMax)
mass_down(m) == Max(MassMin, m - 1)
\* angle_up without the min(85, ...) of line 274
angle_up_unclamped(a) == a + 1
angle_up(a) == Min(AngleMax, a + 1)
angle_down(a) == Max(AngleMin, a - 1)
\* friction_up without the min(1.0, ...) of line 278
friction_up_unclamped(f) == f + FrictionStep
friction_up(f) == Min(FrictionMax, f + FrictionStep)
friction_down(f) == Max(FrictionMin, f - FrictionStep)
\* "paused = True" in place of "paused = not paused"
toggle_pause_sets(p) == TRUE
toggle_pause(p) == ~p

\* ------------------------------------------------------------------- state
VARIABLES mass, angle, friction,   \* Simulator parameters
          motion,                  \* velocity, progress, position_x, position_y
          paused,                  \* the module-level flag
          running,                 \* main()'s loop flag
          pc,                      \* "step", "events", "flip", "done"
          stepped,                 \* update_position was called in this iteration
          ticks, nevents           \* iterations started, events drained

vars == << mass, angle, friction, motion, paused, running, pc, stepped,
           ticks, nevents >>
params == << mass, angle, friction >>

ParamEvents == { "mass_up", "mass_down", "angle_up", "angle_down",
                 "friction_up", "friction_down" }
\* "miss" is a click outside every button, "other" any other event type
Events == ParamEvents \cup { "reset", "pause", "quit", "miss", "other" }

Loop0 ==
  /\ running = TRUE
  /\ pc = "step"
  /\ stepped = FALSE
  /\ ticks = 0
  /\ nevents = 0

\* Simulator.__init__, paused = False, and the entry of main()
Init ==
  /\ mass = MassInit
  /\ angle = AngleInit
  /\ friction = FrictionInit
  /\ motion = reset_simulation(NoMotion)
  /\ paused = FALSE
  /\ Loop0

\* the loop body without the "if not paused" of line 257
TickStepAlways ==
  /\ pc = "step"
  /\ ticks < MaxTicks
  /\ ticks' = ticks + 1
  /\ stepped' = TRUE
  /\ motion' = update_position(motion, mass, angle, friction)
  /\ pc' = "events"
  /\ UNCHANGED << mass, angle, friction, paused, running, nevents >>

\* lines 223-263: draw, then "if not paused: simulator.update_position()"
TickStep ==
  /\ pc = "step"
  /\ ticks < MaxTicks
  /\ ticks' = ticks + 1
  /\ stepped' = ~paused
  /\ motion' = IF paused THEN motion
               ELSE update_position(motion, mass, angle, friction)
  /\ pc' = "events"
  /\ UNCHANGED << mass, angle, friction, paused, running, nevents >>

\* the dispatch with every parameter click also calling reset_simulation
HandleEventResetting(e) ==
  /\ pc = "events"
  /\ nevents < MaxEvents
  /\ nevents' = nevents + 1
  /\ running' = IF e = "quit" THEN FALSE ELSE running
  /\ mass' = CASE e = "mass_up" -> mass_up(mass)
               [] e = "mass_down" -> mass_down(mass)
               [] OTHER -> mass
  /\ angle' = CASE e = "angle_up" -> angle_up(angle)
                [] e = "angle_down" -> angle_down(angle)
                [] OTHER -> angle
  /\ friction' = CASE e = "friction_up" -> friction_up(friction)
                   [] e = "friction_down" -> friction_down(friction)
                   [] OTHER -> friction
  /\ motion' = IF e \in ParamEvents \cup { "reset" }
               THEN reset_simulation(motion) ELSE motion
  /\ paused' = IF e = "pause" THEN toggle_pause(paused) ELSE paused
  /\ UNCHANGED << pc, stepped, ticks >>

\* the dispatch with clicks other than pause ignored while paused
HandleEventWhileRunning(e) ==
  /\ pc = "events"
  /\ nevents < MaxEvents
  /\ nevents' = nevents + 1
  /\ running' = IF e = "quit" THEN FALSE ELSE running
  /\ mass' = CASE ~paused /\ e = "mass_up" -> mass_up(mass)
               [] ~paused /\ e = "mass_down" -> mass_down(mass)
               [] OTHER -> mass
  /\ angle' = CASE ~paused /\ e = "angle_up" -> angle_up(angle)
                [] ~paused /\ e = "angle_down" -> angle_down(angle)
                [] OTHER -> angle
  /\ friction' = CASE ~paused /\ e = "friction_up" -> friction_up(friction)
                   [] ~paused /\ e = "friction_down" -> friction_down(friction)
                   [] OTHER -> friction
  /\ motion' = IF ~paused /\ e = "reset"
               THEN reset_simulation(motion) ELSE motion
  /\ paused' = IF e = "pause" THEN toggle_pause(paused) ELSE paused
  /\ UNCHANGED << pc, stepped, ticks >>

\* lines 266-284: one iteration of "for event in pygame.event.get()"
HandleEvent(e) ==
  /\ pc = "events"
  /\ nevents < MaxEvents
  /\ nevents' = nevents + 1
  /\ running' = IF e = "quit" THEN FALSE ELSE running
  /\ mass' = CASE e = "mass_up" -> mass_up(mass)
               [] e = "mass_down" -> mass_down(mass)
               [] OTHER -> mass
  /\ angle' = CASE e = "angle_up" -> angle_up(angle)
                [] e = "angle_down" -> angle_down(angle)
                [] OTHER -> angle
  /\ friction' = CASE e = "friction_up" -> friction_up(friction)
                   [] e = "friction_down" -> friction_down(friction)
                   [] OTHER -> friction
  /\ motion' = IF e = "reset" THEN reset_simulation(motion) ELSE motion
  /\ paused' = IF e = "pause" THEN toggle_pause(paused) ELSE paused
  /\ UNCHANGED << pc, stepped, ticks >>

\* the for loop of line 265 runs out of events
EndEvents ==
  /\ pc = "events"
  /\ pc' = "flip"
  /\ UNCHANGED << mass, angle, friction, motion, paused, running, stepped,
                  ticks, nevents >>

\* lines 286-287 and the loop test of line 222
Flip ==
  /\ pc = "flip"
  /\ pc' = IF running THEN "step" ELSE "done"
  /\ stepped' = FALSE
  /\ UNCHANGED << mass, angle, friction, motion, paused, running, ticks,
                  nevents >>

Next ==
  \/ TickStep
  \/ \E e \in Events : HandleEvent(e)
  \/ EndEvents
  \/ Flip

Spec == Init /\ [][Next]_vars

\* ----------------------------------------------- further starting states
\* Parameters near the ends of their ranges and near the sliding threshold
\* (tan 30 deg = 0.577).  Each is the state at the top of the second
\* iteration after a first iteration that drained the clicks leading to the
\* parameters, then a reset click, and a pause click or not.
RestParams ==
  { << MassInit, AngleInit, FrictionInit >>,
    << MassMin, AngleInit, FrictionInit >>,
    << MassMax - 1, AngleInit, FrictionInit >>,
    << MassInit, AngleMin + 1, FrictionInit >>,
    << MassInit, AngleMax - 1, FrictionInit >>,
    << MassInit, AngleInit, FrictionMin + FrictionStep >>,
    << MassInit, AngleInit, FrictionMax - FrictionStep >>,
    << MassInit, AngleInit, 55 >> }

InitRest ==
  /\ \E p \in RestParams : mass = p[1] /\ angle = p[2] /\ friction = p[3]
  /\ motion = reset_simulation(NoMotion)
  /\ paused \in BOOLEAN
  /\ Loop0

SpecRest == InitRest /\ [][Next]_vars

\* n calls of update_position on s with the initial parameters (the loop
\* with no event in the queue), split in halves to keep the evaluation shallow
RECURSIVE Steps(_, _)
Steps(s, n) ==
  IF n = 0 THEN s
  ELSE IF n = 1 THEN update_position(s, MassInit, AngleInit, FrictionInit)
  ELSE LET half == Steps(s, n \div 2)
       \* the test is always true; it has half evaluated before the descent
       IN  IF half.progress >= 0 THEN Steps(half, n - n \div 2) ELSE half

\* n iterations of the loop from construction with no event in the queue
Run(n) == Steps(reset_simulation(NoMotion), n)

\* the object a few steps above the bottom of the incline
InitFlight ==
  /\ mass = MassInit
  /\ angle = AngleInit
  /\ friction = FrictionInit
  /\ motion = Run(FlightTicks)
  /\ paused = FALSE
  /\ Loop0

SpecFlight == InitFlight /\ [][Next]_vars

\* ================================================================= claims
Drain(e) == HandleEvent(e)
\* the events that change the simulation: parameter clicks, reset, pause
Applied == ParamEvents \cup { "reset", "pause" }
AtRest == motion.velocity = 0 /\ motion.progress = 0
AtStart == motion.position_x = incline_start[1] * PosScale
           /\ motion.position_y = incline_start[2] * PosScale
Sliding(m, a, f) == parallel_force(m, a) > friction_force(m, a, f)

C2_BottomMeansStopped ==
  pc = "step" => (motion.progress = One => motion.velocity = 0)

\* C3 (as stated): the angle stays in [0, 85).
C3_AngleHalfOpen == angle >= AngleMin /\ angle < 85

\* C3 (amended): the angle stays in the closed range [0, 85], an angle_up
\* click at 85 and an angle_down click at 0 leave it unchanged, and any
\* other angle click moves it by exactly one degree.
C3_AngleClosed ==
  /\ [](angle \in 0 .. 85)
  /\ [][ /\ (Drain("angle_up") =>
               angle' = IF angle = 85 THEN 85 ELSE angle + 1)
         /\ (Drain("angle_down") =>
               angle' = IF angle = 0 THEN 0 ELSE angle - 1) ]_vars

\* the angle has been clicked from 84 up to 85 and clicked up once more
C3_Witness == angle = 85 /\ nevents >= 2

\* C4 (as stated): when parallelForce <= frictionForce the acceleration is 0
\* and a step leaves progress unchanged, also with velocity > 0.
C4_NoDriveNoMove ==
  [][ (pc = "step" /\ ~paused /\ ~Sliding(mass, angle, friction)) =>
        /\ acceleration(mass, angle, friction) = 0
        /\ motion'.progress = motion.progress ]_vars

\* C5: a reset click yields progress 0 and velocity 0 with the object at
\* incline_start, and leaves mass, angle, friction and paused unchanged.
C5_Reset ==
  [][ Drain("reset") =>
        /\ motion'.velocity = 0
        /\ motion'.progress = 0
        /\ motion'.position_x = 700 * PosScale
        /\ motion'.position_y = 100 * PosScale
        /\ UNCHANGED << mass, angle, friction, paused >> ]_vars

\* a reset drained while paused, in an iteration whose step had moved the
\* object
C5_Witness ==
  /\ pc = "events"
  /\ stepped
  /\ paused
  /\ AtRest
  /\ AtStart

\* C6: progress stays within [0, 1]; it decreases only by a reset; a step
\* taken at progress 1 leaves progress at 1 and sets velocity to 0; and no
\* parameter click changes progress.
C6_Progress ==
  /\ [](motion.progress >= 0 /\ motion.progress <= One)
  /\ [][ /\ (motion'.progress < motion.progress => Drain("reset"))
         /\ (pc = "step" /\ ~paused /\ motion.progress = One =>
               motion'.progress = One /\ motion'.velocity = 0)
         /\ (motion.progress = One /\ ~Drain("reset") =>
               motion'.progress = One) ]_vars

\* a step has run with the object at the bottom, after a parameter change
C6_Witness ==
  /\ pc = "events"
  /\ stepped
  /\ motion.progress = One
  /\ motion.velocity = 0
  /\ params # << MassInit, AngleInit, FrictionInit >>

\* C7: a parameter click changes nothing but its own parameter.
C7_Frame ==
  [][ /\ (Drain("mass_up") \/ Drain("mass_down") =>
            UNCHANGED << angle, friction, motion, paused, running >>)
      /\ (Drain("angle_up") \/ Drain("angle_down") =>
            UNCHANGED << mass, friction, motion, paused, running >>)
      /\ (Drain("friction_up") \/ Drain("friction_down") =>
            UNCHANGED << mass, angle, motion, paused, running >>) ]_vars

\* every parameter has been clicked while the object was moving
C7_Witness ==
  /\ motion.velocity > 0
  /\ mass # MassInit
  /\ angle # AngleInit
  /\ friction # FrictionInit

\* C8: paused starts False, a pause click flips it, and nothing else
\* changes it; parameter and reset clicks are handled in both run states.
C8_RunState ==
  /\ paused = FALSE
  /\ [][ /\ (paused' # paused => Drain("pause"))
         /\ (Drain("pause") => paused' = ~paused)
         /\ \A e \in Events \ { "pause" } : Drain(e) => paused' = paused
       ]_vars

\* paused, then a reset and a parameter click in the same iteration
C8_Witness ==
  /\ paused
  /\ stepped
  /\ AtRest
  /\ angle # AngleInit

\* C9: mass stays in [1, 100] and friction in [0, 1]; a click at a range
\* boundary in the outward direction leaves the value unchanged.
C9_Ranges ==
  /\ [](mass \in 1 .. 100 /\ friction \in 0 .. 100)
  /\ [][ /\ (Drain("mass_up") /\ mass = 100 => mass' = 100)
         /\ (Drain("mass_down") /\ mass = 1 => mass' = 1)
         /\ (Drain("friction_up") /\ friction = 100 => friction' = 100)
         /\ (Drain("friction_down") /\ friction = 0 => friction' = 0)
       ]_vars

\* the mass has been clicked from 99 up to 100 and once more, or the
\* friction from 0.05 down to 0 and once more
C9_Witness ==
  /\ nevents >= 2
  /\ \/ mass = 100
     \/ friction = 0

\* C10: in an iteration that starts paused the step does not run, so the
\* motion fields change in it only by a reset; parameter clicks are applied
\* while paused as they are while running.
C10_PausedTick ==
  [][ /\ (pc = "step" /\ paused => UNCHANGED motion /\ ~stepped')
      /\ (pc # "step" /\ motion' # motion => Drain("reset"))
      /\ (paused /\ Drain("mass_up") => mass' = Min(mass + 1, 100))
      /\ (paused /\ Drain("mass_down") => mass' = Max(mass - 1, 1))
      /\ (paused /\ Drain("angle_up") => angle' = Min(angle + 1, 85))
      /\ (paused /\ Drain("angle_down") => angle' = Max(angle - 1, 0))
      /\ (paused /\ Drain("friction_up") => friction' = Min(friction + 5, 100))
      /\ (paused /\ Drain("friction_down") => friction' = Max(friction - 5, 0))
    ]_vars

\* a paused iteration ended with the object where it was, mid-incline, and
\* a parameter changed
C10_Witness ==
  /\ pc = "flip"
  /\ paused
  /\ ~stepped
  /\ motion.progress > 0
  /\ friction # FrictionInit

====
